---- MODULE Spec2Model ----
(***************************************************************************)
(* State-machine model of the sensor controller: the SocketServer session, *)
(* the CommandHandler (configure / start / stop) and the devices it owns.  *)
(*                                                                         *)
(* The handler is python/lsst/ts/envsensors/command_handler.py, the device *)
(* life cycle (open / _run / close) is                                     *)
(* python/lsst/ts/ess/controller/device/base_device.py and the session is  *)
(* python/lsst/ts/envsensors/socket_server.py.  Every coroutine is cut at  *)
(* the awaits where it can be suspended, so that the device tasks and the  *)
(* connection events interleave with a command that is in progress.        *)
(***************************************************************************)
EXTENDS Integers, Sequences, FiniteSets, TLC

(***************************************************************************)
(* Bounds of the model.                                                    *)
(***************************************************************************)
\* Largest number of device objects created over a whole run.
MaxObjects == 3

(***************************************************************************)
(* Values.                                                                 *)
(***************************************************************************)
\* A key that is not present in a dict.
Absent == "absent"

\* Python's None.
None == "None"

\* ResponseCode members, by name.
OK == "OK"
ALREADY_STARTED == "ALREADY_STARTED"
NOT_CONFIGURED == "NOT_CONFIGURED"
NOT_STARTED == "NOT_STARTED"
INVALID_CONFIGURATION == "INVALID_CONFIGURATION"

\* The command is still being handled: handle_command has not returned.
PENDING == "PENDING"
\* handle_command was left by an exception that is not a CommandError: the
\* callback was never called for the command.
RAISED == "RAISED"
\* handle_command was cancelled together with the read loop: the callback
\* was never called for the command.
CANCELLED == "CANCELLED"

\* common.ResponseCode.DEVICE_READ_ERROR, which BaseDevice._run puts in the
\* telemetry of a device that could not be read.
DEVICE_READ_ERROR == "DEVICE_READ_ERROR"

ResponseCodes ==
    {OK, ALREADY_STARTED, NOT_CONFIGURED, NOT_STARTED, INVALID_CONFIGURATION}

\* DeviceType and SensorType members.
FTDI == "FTDI"
SERIAL == "Serial"
TEMPERATURE == "Temperature"
WIND == "Wind"

\* CommandHandler.required_keys
required_keys == {"name", "channels", "device_type", "sensor_type"}

(***************************************************************************)
(* Device configurations: a dict is a record whose missing keys are Absent.*)
(***************************************************************************)
Entry(name, device_type, sensor_type, channels, ftdi_id, serial_port) ==
    [name |-> name, device_type |-> device_type, sensor_type |-> sensor_type,
     channels |-> channels, ftdi_id |-> ftdi_id, serial_port |-> serial_port]

\* A configuration dict: its set of top-level keys and the value of "devices".
Config(keys, devs) == [keys |-> keys, devices |-> devs]

EntryA == Entry("A", FTDI, TEMPERATURE, "4", "ABC", Absent)
EntryB == Entry("B", SERIAL, TEMPERATURE, "4", Absent, "serial_ch_1")

\* Payloads that satisfy every rule of the configuration validation.
ValidPayloads ==
    { Config({"devices"}, <<EntryA>>),
      Config({"devices"}, <<EntryA, EntryB>>) }

\* Payloads that break one rule each: no devices, a missing required key,
\* an unknown sensor type in the second entry.
InvalidPayloads ==
    { Config({"devices"}, <<>>),
      Config({"devices"}, <<Entry("A", FTDI, TEMPERATURE, Absent, "ABC", Absent)>>),
      Config({"devices"}, <<EntryA, Entry("H", FTDI, "Temp", "4", "ABC", Absent)>>) }

Payloads == ValidPayloads \cup InvalidPayloads

VARIABLES
    simulation_mode,   \* CommandHandler.simulation_mode, fixed at construction
    aarch64,           \* "aarch64" in platform.platform()
    connected,         \* SocketServer._server.connected
    read_loop_task,    \* SocketServer.read_loop_task
    configuration,     \* CommandHandler._configuration
    started,           \* CommandHandler._started
    devices,           \* CommandHandler._devices: indices into objs
    objs,              \* every device object created so far
    pc,                \* where handle_command is suspended
    iter,              \* position of the for loop of connect_devices
    cmd,               \* the command handled last and its response
    prev,              \* the command handled before it and its response
    seq,               \* flips each time a command is dispatched
    emitted,           \* device whose telemetry the last step delivered, or 0
    stopped_upto,      \* Len(objs) when a stop was last answered OK
    start_base,        \* Len(objs) when a start was last dispatched
    serving,           \* the listening socket of SocketServer._server is open
    ext                \* state of the component specifications (see below)

hvars == <<configuration, started, devices, objs>>
vars == <<simulation_mode, aarch64, connected, read_loop_task, configuration,
          started, devices, objs, pc, iter, cmd, prev, seq, emitted,
          stopped_upto, start_base, serving, ext>>

\* self._configuration = None (no configuration stored); also the payload
\* of a command that carries none.
NoConfiguration == Config({}, <<>>)

\* The component specifications do not run in this specification.
NoExt == [spec |-> "none"]

\* No command has been handled yet.
NoCmd == [name |-> None, payload |-> NoConfiguration, resp |-> None]

Last(s) == s[Len(s)]


Max(S) == CHOOSE x \in S : \A y \in S : y <= x

(***************************************************************************)
(* Configuration validation.                                               *)
(***************************************************************************)
\* device_configuration.keys()
EntryKeys(e) == {k \in DOMAIN e : e[k] # Absent}

\* CommandHandler._validate_device_configuration: TRUE when it raises the
\* CommandError INVALID_CONFIGURATION.
validate_device_configuration_raises(e) ==
    \/ required_keys \ EntryKeys(e) # {}
    \/ e.device_type \notin {FTDI, SERIAL}
    \/ e.sensor_type \notin {TEMPERATURE, WIND}
    \/ (e.device_type = FTDI /\ "ftdi_id" \notin EntryKeys(e))
    \/ (e.device_type = SERIAL /\ "serial_port" \notin EntryKeys(e))

\* Mutant of validate_configuration_raises: only the first entry of the
\* device list is validated.
validate_configuration_raises_first_entry(c) ==
    \/ "devices" \notin c.keys
    \/ Cardinality(c.keys) # 1
    \/ c.devices = <<>>
    \/ validate_device_configuration_raises(c.devices[1])

\* CommandHandler._validate_configuration: TRUE when it raises the
\* CommandError INVALID_CONFIGURATION.
validate_configuration_raises(c) ==
    \/ "devices" \notin c.keys
    \/ Cardinality(c.keys) # 1
    \/ c.devices = <<>>
    \/ \E k \in 1..Len(c.devices) :
          validate_device_configuration_raises(c.devices[k])

(***************************************************************************)
(* The response code of the three commands, as decided by their guards.    *)
(***************************************************************************)
\* Mutant of configure_response: the payload is validated before the
\* started flag is looked at.
configure_response_validates_first(is_started, c) ==
    IF validate_configuration_raises(c) THEN INVALID_CONFIGURATION
    ELSE IF is_started THEN ALREADY_STARTED
    ELSE OK

\* CommandHandler.configure: the started check comes before the validation.
configure_response(is_started, c) ==
    IF is_started THEN ALREADY_STARTED
    ELSE IF validate_configuration_raises(c) THEN INVALID_CONFIGURATION
    ELSE OK

\* Mutant of start_rejected: the check of the configuration is missing.
start_rejected_never(c) == FALSE

\* CommandHandler.start_sending_telemetry: "if not self._configuration".
start_rejected(c) == c = NoConfiguration

\* Mutant of stop_rejected: the check of the started flag is missing.
stop_rejected_never(is_started) == FALSE

\* CommandHandler.stop_sending_telemetry: "if not self._started".
stop_rejected(is_started) == ~is_started

(***************************************************************************)
(* Devices.                                                                *)
(***************************************************************************)
\* BaseDevice.__init__: not open, _telemetry_loop is a done future.
\* orphans counts the tasks that still run but are no longer referenced by
\* _telemetry_loop.
NewDevice(e) ==
    [name |-> e.name, is_open |-> FALSE, loop |-> "done", orphans |-> 0]

\* BaseDevice.open after basic_open has returned: is_open is set and the
\* acquisition task is created; a task that _telemetry_loop referenced
\* until then is neither cancelled nor awaited.
OpenedDevice(d) ==
    [d EXCEPT !.is_open = TRUE,
              !.loop = "running",
              !.orphans = IF d.loop = "running" THEN @ + 1 ELSE @]

\* BaseDevice.close up to the await of basic_close: the task is cancelled,
\* _telemetry_loop is replaced by a done future and is_open is cleared.
\* Mutant of ClosedDevice: the task is not cancelled.
ClosedDevice_keeps_task(d) == [d EXCEPT !.is_open = FALSE]

ClosedDevice(d) == [d EXCEPT !.is_open = FALSE, !.loop = "done"]

\* The number of live acquisition tasks of a device.
Tasks(d) == (IF d.loop = "running" THEN 1 ELSE 0) + d.orphans

\* A device has a live acquisition task.
Live(d) == Tasks(d) > 0

\* CommandHandler._get_sensor and _get_device: TRUE when no device can be
\* made for the entry (RuntimeError, or KeyError for a key the entry lacks).
get_device_raises(e, sim, arm) ==
    \/ e.sensor_type \notin {TEMPERATURE, WIND}
    \/ e.channels = Absent
    \/ IF sim = 1 THEN e.ftdi_id = Absent
       ELSE IF e.device_type = FTDI THEN e.ftdi_id = Absent
       ELSE IF e.device_type = SERIAL THEN (~arm \/ e.serial_port = Absent)
       ELSE TRUE

\* The outcomes of basic_open and basic_close: MockDevice never fails, the
\* hardware devices may raise IOError.
IoOutcomes(sim) == IF sim = 1 THEN {TRUE} ELSE BOOLEAN

(***************************************************************************)
(* Initial state: SocketServer.__init__ and CommandHandler.__init__.       *)
(***************************************************************************)
Init ==
    /\ simulation_mode \in {0, 1}
    /\ aarch64 \in BOOLEAN
    /\ connected = FALSE
    /\ read_loop_task = "pending"
    /\ configuration = NoConfiguration
    /\ started = FALSE
    /\ devices = <<>>
    /\ objs = <<>>
    /\ pc = "idle"
    /\ iter = 0
    /\ cmd = NoCmd
    /\ prev = NoCmd
    /\ seq = 0
    /\ emitted = 0
    /\ stopped_upto = 0
    /\ start_base = 0
    /\ serving = TRUE
    /\ ext = NoExt

\* SocketServer.read_loop is waiting in readuntil for the next command line.
CanDispatch ==
    /\ connected
    /\ read_loop_task = "running"
    /\ pc = "idle"

\* A new command line has been read and handed to handle_command.
Dispatch ==
    /\ prev' = cmd
    /\ seq' = 1 - seq

\* An exception that is not a CommandError leaves handle_command without a
\* call of the callback; read_loop catches it, logs it and ends.
Raise(c) ==
    /\ cmd' = [c EXCEPT !.resp = RAISED]
    /\ pc' = "idle"
    /\ iter' = 0
    /\ read_loop_task' = "done"

\* handle_command passes the response to the callback and returns.
Respond(c, r) ==
    /\ cmd' = [c EXCEPT !.resp = r]
    /\ pc' = "idle"
    /\ iter' = 0
    /\ read_loop_task' = read_loop_task

(***************************************************************************)
(* configure                                                               *)
(***************************************************************************)
\* Mutant of configure: the validated payload is not stored.
configure_not_stored(p) ==
    /\ CanDispatch
    /\ Dispatch
    /\ Respond([name |-> "configure", payload |-> p, resp |-> PENDING],
               configure_response(started, p))
    /\ emitted' = 0
    /\ UNCHANGED <<ext, serving, start_base>>
    /\ UNCHANGED <<simulation_mode, aarch64, connected, configuration,
                   started, devices, objs, stopped_upto>>

\* CommandHandler.handle_command for configure, with CommandHandler.configure.
configure(p) ==
    /\ CanDispatch
    /\ Dispatch
    /\ LET r == configure_response(started, p)
       IN  /\ configuration' = IF r = OK THEN p ELSE configuration
           /\ Respond([name |-> "configure", payload |-> p, resp |-> PENDING], r)
    /\ emitted' = 0
    /\ UNCHANGED <<ext, serving, start_base>>
    /\ UNCHANGED <<simulation_mode, aarch64, connected, started, devices,
                   objs, stopped_upto>>

(***************************************************************************)
(* start: start_sending_telemetry and connect_devices                      *)
(***************************************************************************)
\* connect_devices from the head of iteration k of its for loop, with the
\* device list devs and the objects os, up to the next await that suspends
\* (basic_open of the device just made) or to the end of handle_command.
\* Mutant of connect_devices_from: the started flag is never set.
connect_devices_not_started(k, devs, os, c) ==
    LET dcs == configuration.devices
    IN  IF k > Len(dcs)
        THEN /\ devices' = devs
             /\ objs' = os
             /\ started' = started
             /\ Respond(c, OK)
        ELSE IF get_device_raises(dcs[k], simulation_mode, aarch64)
        THEN /\ devices' = devs
             /\ objs' = os
             /\ started' = started
             /\ Raise(c)
        ELSE /\ objs' = Append(os, NewDevice(dcs[k]))
             /\ devices' = Append(devs, Len(os) + 1)
             /\ started' = started
             /\ cmd' = c
             /\ pc' = "basic_open"
             /\ iter' = k
             /\ read_loop_task' = read_loop_task

connect_devices_from(k, devs, os, c) ==
    LET dcs == configuration.devices
    IN  IF k > Len(dcs)
        THEN /\ devices' = devs
             /\ objs' = os
             /\ started' = TRUE
             /\ Respond(c, OK)
        ELSE IF get_device_raises(dcs[k], simulation_mode, aarch64)
        THEN /\ devices' = devs
             /\ objs' = os
             /\ started' = started
             /\ Raise(c)
        ELSE /\ objs' = Append(os, NewDevice(dcs[k]))
             /\ devices' = Append(devs, Len(os) + 1)
             /\ started' = started
             /\ cmd' = c
             /\ pc' = "basic_open"
             /\ iter' = k
             /\ read_loop_task' = read_loop_task

start_sending_telemetry ==
    /\ CanDispatch
    /\ Len(objs) + Len(configuration.devices) <= MaxObjects
    /\ Dispatch
    /\ start_base' = Len(objs)
    /\ LET c == [name |-> "start", payload |-> NoConfiguration, resp |-> PENDING]
       IN  IF start_rejected(configuration)
           THEN /\ Respond(c, NOT_CONFIGURED)
                /\ UNCHANGED <<started, devices, objs>>
           ELSE connect_devices_from(1, <<>>, objs, c)
    /\ emitted' = 0
    /\ UNCHANGED <<ext, serving>>
    /\ UNCHANGED <<simulation_mode, aarch64, connected, configuration,
                   stopped_upto>>

\* BaseDevice.open resumes after "await self.basic_open()": on success the
\* device is marked open, its task is created and connect_devices goes on
\* with the next entry; an IOError leaves start_sending_telemetry.
basic_open_returns ==
    /\ pc = "basic_open"
    /\ \E ok \in IoOutcomes(simulation_mode) :
          IF ok
          THEN connect_devices_from(iter + 1, devices,
                   [objs EXCEPT ![Last(devices)] = OpenedDevice(@)], cmd)
          ELSE /\ Raise(cmd)
               /\ UNCHANGED <<started, devices, objs>>
    /\ emitted' = 0
    /\ UNCHANGED <<ext, serving, start_base>>
    /\ UNCHANGED <<simulation_mode, aarch64, connected, configuration, prev,
                   seq, stopped_upto>>

(***************************************************************************)
(* stop: stop_sending_telemetry                                            *)
(***************************************************************************)
\* The while loop of stop_sending_telemetry with the device list devs and
\* the objects os, up to the next await that suspends (basic_close of an
\* open device) or to the end of handle_command.  close of a device that
\* is not open returns without awaiting.
stop_loop_from(devs, os, c) ==
    LET opened == {j \in 1..Len(devs) : os[devs[j]].is_open}
        first == IF opened = {} THEN 1 ELSE Max(opened)
        popped == {devs[j] : j \in first..Len(devs)}
        closed == [i \in 1..Len(os) |->
                      IF i \in popped THEN ClosedDevice(os[i]) ELSE os[i]]
    IN  /\ objs' = closed
        /\ devices' = SubSeq(devs, 1, first - 1)
        /\ IF opened = {}
           THEN /\ Respond(c, OK)
                /\ stopped_upto' = Len(os)
           ELSE /\ cmd' = c
                /\ pc' = "basic_close"
                /\ iter' = 0
                /\ read_loop_task' = read_loop_task
                /\ stopped_upto' = stopped_upto

\* Mutant of stop_sending_telemetry: the stop forgets the configuration.
stop_clears_configuration ==
    /\ CanDispatch
    /\ Dispatch
    /\ LET c == [name |-> "stop", payload |-> NoConfiguration, resp |-> PENDING]
       IN  IF stop_rejected(started)
           THEN /\ Respond(c, NOT_STARTED)
                /\ UNCHANGED <<started, devices, objs, stopped_upto>>
                /\ UNCHANGED configuration
           ELSE /\ started' = FALSE
                /\ configuration' = NoConfiguration
                /\ stop_loop_from(devices, objs, c)
    /\ emitted' = 0
    /\ UNCHANGED <<ext, serving, start_base>>
    /\ UNCHANGED <<simulation_mode, aarch64, connected>>

stop_sending_telemetry ==
    /\ CanDispatch
    /\ Dispatch
    /\ LET c == [name |-> "stop", payload |-> NoConfiguration, resp |-> PENDING]
       IN  IF stop_rejected(started)
           THEN /\ Respond(c, NOT_STARTED)
                /\ UNCHANGED <<started, devices, objs, stopped_upto>>
           ELSE /\ started' = FALSE
                /\ stop_loop_from(devices, objs, c)
    /\ emitted' = 0
    /\ UNCHANGED <<ext, serving, start_base>>
    /\ UNCHANGED <<simulation_mode, aarch64, connected, configuration>>

\* BaseDevice.close resumes after "await self.basic_close()".
basic_close_returns ==
    /\ pc = "basic_close"
    /\ \E ok \in IoOutcomes(simulation_mode) :
          IF ok
          THEN stop_loop_from(devices, objs, cmd)
          ELSE /\ Raise(cmd)
               /\ UNCHANGED <<devices, objs, stopped_upto>>
    /\ emitted' = 0
    /\ UNCHANGED <<ext, serving, start_base>>
    /\ UNCHANGED <<simulation_mode, aarch64, connected, configuration,
                   started, prev, seq>>

(***************************************************************************)
(* The acquisition task of a device.                                       *)
(***************************************************************************)
\* BaseDevice._run: one iteration of the loop of a live task, which ends in
\* the call of the callback with a telemetry message of the device.
run(d) ==
    /\ Live(objs[d])
    /\ emitted' = d
    /\ UNCHANGED <<ext, serving, start_base>>
    /\ UNCHANGED <<simulation_mode, aarch64, connected, read_loop_task,
                   configuration, started, devices, objs, pc, iter, cmd,
                   prev, seq, stopped_upto>>

(***************************************************************************)
(* The session: SocketServer.connected_callback                            *)
(***************************************************************************)
\* A client connects: the old read loop is cancelled, a new one is created.
client_connects ==
    /\ serving
    /\ ~connected
    /\ connected' = TRUE
    /\ read_loop_task' = "running"
    /\ emitted' = 0
    /\ UNCHANGED <<ext, serving, start_base>>
    /\ UNCHANGED <<simulation_mode, aarch64, configuration, started, devices,
                   objs, pc, iter, cmd, prev, seq, stopped_upto>>

\* The client disconnects: the read loop is cancelled, and with it the
\* command it is handling, at the await where that command is suspended.
client_disconnects ==
    /\ connected
    /\ connected' = FALSE
    /\ read_loop_task' =
          IF read_loop_task = "running" THEN "cancelled" ELSE read_loop_task
    /\ IF pc # "idle"
       THEN cmd' = [cmd EXCEPT !.resp = CANCELLED]
       ELSE cmd' = cmd
    /\ pc' = "idle"
    /\ iter' = 0
    /\ emitted' = 0
    /\ UNCHANGED <<ext, serving, start_base>>
    /\ UNCHANGED <<simulation_mode, aarch64, configuration, started, devices,
                   objs, prev, seq, stopped_upto>>

\* The command "exit": read_loop calls SocketServer.exit, which closes the
\* stream writer of the peer and then the server; the loop condition is false
\* afterwards and the read loop returns.  The command handler is not told.
exit ==
    /\ CanDispatch
    /\ Dispatch
    /\ cmd' = [name |-> "exit", payload |-> NoConfiguration, resp |-> None]
    /\ connected' = FALSE
    /\ serving' = FALSE
    /\ read_loop_task' = "done"
    /\ emitted' = 0
    /\ UNCHANGED <<ext, start_base>>
    /\ UNCHANGED <<simulation_mode, aarch64, configuration, started, devices,
                   objs, pc, iter, stopped_upto>>

\* The command "disconnect": read_loop hands every command but "exit" to
\* handle_command, whose dispatch_dict has no such key; the KeyError leaves
\* handle_command and is caught and logged by read_loop, which ends.
disconnect ==
    /\ CanDispatch
    /\ Dispatch
    /\ Raise([name |-> "disconnect", payload |-> NoConfiguration,
              resp |-> PENDING])
    /\ emitted' = 0
    /\ UNCHANGED <<ext, serving, start_base>>
    /\ UNCHANGED <<simulation_mode, aarch64, connected, configuration,
                   started, devices, objs, stopped_upto>>

\* A line that is not a JSON object with the keys "command" and "parameters":
\* json.loads or the subscription raises, read_loop catches the exception,
\* logs it and ends.
malformed_line ==
    /\ CanDispatch
    /\ Dispatch
    /\ Raise([name |-> "malformed", payload |-> NoConfiguration,
              resp |-> PENDING])
    /\ emitted' = 0
    /\ UNCHANGED <<ext, serving, start_base>>
    /\ UNCHANGED <<simulation_mode, aarch64, connected, configuration,
                   started, devices, objs, stopped_upto>>

Next ==
    \/ \E p \in Payloads : configure(p)
    \/ start_sending_telemetry
    \/ basic_open_returns
    \/ stop_sending_telemetry
    \/ basic_close_returns
    \/ \E d \in 1..Len(objs) : run(d)
    \/ client_connects
    \/ client_disconnects
    \/ exit
    \/ disconnect
    \/ malformed_line

Spec == Init /\ [][Next]_vars

TypeOK ==
    /\ simulation_mode \in {0, 1}
    /\ started \in BOOLEAN
    /\ pc \in {"idle", "basic_open", "basic_close"}
    /\ Len(objs) <= MaxObjects
    /\ emitted \in 0..Len(objs)

(***************************************************************************)
(* BaseDevice on its own: one device whose open and close are called by    *)
(* any caller, one call at a time, with its acquisition tasks.  ext holds  *)
(* the device, the call in progress and the numbers of calls of basic_open *)
(* and basic_close; simulation_mode tells a MockDevice from a hardware     *)
(* device.                                                                 *)
(***************************************************************************)
\* The open calls a run makes.
MaxCalls == 3

\* The variables of the command handler and of the socket server.
mainvars ==
    <<simulation_mode, aarch64, connected, read_loop_task, configuration,
      started, devices, objs, pc, iter, cmd, prev, seq, emitted,
      stopped_upto, start_base, serving>>

\* BaseDevice.__init__.
InitDevice ==
    /\ simulation_mode \in {0, 1}
    /\ aarch64 = FALSE
    /\ connected = FALSE
    /\ read_loop_task = "pending"
    /\ configuration = NoConfiguration
    /\ started = FALSE
    /\ devices = <<>>
    /\ objs = <<>>
    /\ pc = "idle"
    /\ iter = 0
    /\ cmd = NoCmd
    /\ prev = NoCmd
    /\ seq = 0
    /\ emitted = 0
    /\ stopped_upto = 0
    /\ start_base = 0
    /\ serving = FALSE
    /\ ext = [spec |-> "device",
              dev |-> NewDevice(EntryA),
              at |-> "idle",
              call |-> None,
              result |-> None,
              n |-> 0,
              basic_opens |-> 0,
              basic_closes |-> 0,
              sent |-> FALSE]

\* BaseDevice.open up to "await self.basic_open()": an open device is
\* logged as "Already open, ignoring." and the method goes on.
open ==
    /\ ext.at = "idle"
    /\ ext.basic_opens < MaxCalls
    /\ ext' = [ext EXCEPT !.call = "open",
                          !.result = PENDING,
                          !.n = 1 - @,
                          !.at = "basic_open",
                          !.basic_opens = @ + 1,
                          !.sent = FALSE]
    /\ UNCHANGED mainvars

\* BaseDevice.open after "await self.basic_open()".
open_continues ==
    /\ ext.at = "basic_open"
    /\ \E ok \in IoOutcomes(simulation_mode) :
          IF ok
          THEN ext' = [ext EXCEPT !.dev = OpenedDevice(@),
                                  !.at = "idle",
                                  !.result = OK,
                                  !.sent = FALSE]
          ELSE ext' = [ext EXCEPT !.at = "idle",
                                  !.result = RAISED,
                                  !.sent = FALSE]
    /\ UNCHANGED mainvars

\* BaseDevice.close up to "await self.basic_close()", or to its return for
\* a device that is not open.
close ==
    /\ ext.at = "idle"
    /\ ext' = [ext EXCEPT !.call = "close",
                          !.n = 1 - @,
                          !.dev = ClosedDevice(@),
                          !.result = IF ext.dev.is_open THEN PENDING ELSE OK,
                          !.at = IF ext.dev.is_open THEN "basic_close" ELSE "idle",
                          !.basic_closes = IF ext.dev.is_open THEN @ + 1 ELSE @,
                          !.sent = FALSE]
    /\ UNCHANGED mainvars

\* BaseDevice.close after "await self.basic_close()".
close_continues ==
    /\ ext.at = "basic_close"
    /\ \E ok \in IoOutcomes(simulation_mode) :
          ext' = [ext EXCEPT !.at = "idle",
                             !.result = IF ok THEN OK ELSE RAISED,
                             !.sent = FALSE]
    /\ UNCHANGED mainvars

\* BaseDevice._run: one iteration of the task that _telemetry_loop refers to,
\* which ends in the call of the callback.
run_task ==
    /\ ext.dev.loop = "running"
    /\ ext' = [ext EXCEPT !.sent = TRUE]
    /\ UNCHANGED mainvars

\* BaseDevice._run: one iteration of a task that _telemetry_loop no longer
\* refers to; after the call of the callback the task tests
\* self._telemetry_loop.done() and returns when that future is done.
run_orphan ==
    /\ ext.dev.orphans > 0
    /\ ext' = [ext EXCEPT !.sent = TRUE,
                          !.dev.orphans =
                              IF ext.dev.loop = "done" THEN @ - 1 ELSE @]
    /\ UNCHANGED mainvars

NextDevice ==
    \/ open
    \/ open_continues
    \/ close
    \/ close_continues
    \/ run_task
    \/ run_orphan

SpecDevice == InitDevice /\ [][NextDevice]_vars

(***************************************************************************)
(* The socket server and the command handler of lsst.ts.ess.sensors.  The  *)
(* server is an asyncio.start_server whose client_connected_cb is          *)
(* read_loop, so that every accepted connection runs its own read_loop.    *)
(* ext holds the server (started, listening, writer, the read loop of each *)
(* connection), the handler (configuration, hstarted, instruments) and the *)
(* last message written.  A command is handled in one step.                *)
(***************************************************************************)
\* The connections that can be open at a time.
MaxConns == 2
\* The instruments a run creates.
MaxInstruments == 3

Conns == 1..MaxConns

\* The connections whose read_loop is running.
Reading == {c \in Conns : ext.loops[c] = "loop"}

\* SocketServer.__init__ and CommandHandler.__init__, then SocketServer.start.
InitSensors ==
    /\ simulation_mode \in {0, 1}
    /\ aarch64 = FALSE
    /\ connected = FALSE
    /\ read_loop_task = "pending"
    /\ configuration = NoConfiguration
    /\ started = FALSE
    /\ devices = <<>>
    /\ objs = <<>>
    /\ pc = "idle"
    /\ iter = 0
    /\ cmd = NoCmd
    /\ prev = NoCmd
    /\ seq = 0
    /\ emitted = 0
    /\ stopped_upto = 0
    /\ start_base = 0
    /\ serving = FALSE
    /\ ext = [spec |-> "sensors",
              started |-> TRUE,
              listening |-> TRUE,
              writer |-> 0,
              loops |-> [c \in Conns |-> "none"],
              configuration |-> NoConfiguration,
              hstarted |-> FALSE,
              instruments |-> <<>>,
              last |-> [from |-> 0, to |-> 0, name |-> None, resp |-> None]]

\* SocketServer.write: the message goes to the stream writer that _writer
\* refers to, if any.
sensors_write(e, c, n, r) ==
    [e EXCEPT !.last = [from |-> c, to |-> e.writer, name |-> n, resp |-> r]]

\* An exception leaves read_loop: nothing is written and the read loop of
\* the connection is over; the connection is not closed.
sensors_raise(e, c, n) ==
    [e EXCEPT !.last = [from |-> c, to |-> 0, name |-> n, resp |-> RAISED],
              !.loops[c] = "dead"]

\* The test "while self._started" after a command has been handled.
sensors_loop(e, c) ==
    IF e.started THEN e ELSE [e EXCEPT !.loops[c] = "dead"]

\* The server accepts connection c and starts read_loop(reader, writer) for
\* it, which assigns _writer and _reader and waits for a line.
read_loop_begins(c) ==
    /\ ext.listening
    /\ ext.loops[c] = "none"
    /\ ext' = sensors_loop([ext EXCEPT !.writer = c, !.loops[c] = "loop"], c)
    /\ UNCHANGED mainvars

\* CommandHandler.configure of lsst.ts.ess.sensors, called by handle_command.
sensors_configure(c, p) ==
    /\ ext.loops[c] = "loop"
    /\ ext' = sensors_loop(
                 IF ext.hstarted
                 THEN sensors_write(ext, c, "configure", ALREADY_STARTED)
                 ELSE sensors_write([ext EXCEPT !.configuration = p],
                                    c, "configure", OK), c)
    /\ UNCHANGED mainvars

\* CommandHandler._get_device of lsst.ts.ess.sensors: outside the simulation
\* mode an entry that is not of type FTDI makes it evaluate self.config,
\* an attribute the handler does not have.
sensors_get_device_raises(e, sim) == sim # 1 /\ e.device_type # FTDI

\* CommandHandler.start_sending_telemetry and connect_devices of
\* lsst.ts.ess.sensors: the instruments are appended to the list as it is.
sensors_start(c) ==
    /\ ext.loops[c] = "loop"
    /\ Len(ext.instruments) + Len(ext.configuration.devices) <= MaxInstruments
    /\ LET dcs == ext.configuration.devices
           bad == {k \in 1..Len(dcs) :
                      sensors_get_device_raises(dcs[k], simulation_mode)}
           upto == IF bad = {} THEN Len(dcs)
                   ELSE (CHOOSE k \in bad : \A j \in bad : k <= j) - 1
           made == [k \in 1..upto |-> dcs[k].name]
       IN  ext' =
             IF ext.configuration = NoConfiguration
             THEN sensors_loop(sensors_write(ext, c, "start", NOT_CONFIGURED), c)
             ELSE IF bad # {}
             THEN sensors_raise(
                     [ext EXCEPT !.instruments = @ \o made], c, "start")
             ELSE sensors_loop(sensors_write(
                     [ext EXCEPT !.instruments = @ \o made,
                                 !.hstarted = TRUE], c, "start", OK), c)
    /\ UNCHANGED mainvars

\* The instruments left in the list by
\*   for ess_instrument in self._ess_instruments:
\*       await ess_instrument.stop()
\*       self._ess_instruments.remove(ess_instrument)
\* the removal moves the rest of the list under the iterator, which
\* therefore skips every second instrument.
sensors_left(l) == [j \in 1..(Len(l) \div 2) |-> l[2 * j]]

\* CommandHandler.stop_sending_telemetry of lsst.ts.ess.sensors.
sensors_stop(c) ==
    /\ ext.loops[c] = "loop"
    /\ ext' = sensors_loop(
                 IF ~ext.hstarted
                 THEN sensors_write(ext, c, "stop", NOT_STARTED)
                 ELSE sensors_write(
                         [ext EXCEPT !.hstarted = FALSE,
                                     !.instruments = sensors_left(@)],
                         c, "stop", OK), c)
    /\ UNCHANGED mainvars

\* A command that is neither "exit" nor a key of dispatch_dict (such as
\* "disconnect"), or a line that is not a command: KeyError or
\* JSONDecodeError leaves read_loop.
sensors_unknown(c) ==
    /\ ext.loops[c] = "loop"
    /\ ext' = sensors_raise(ext, c, "unknown")
    /\ UNCHANGED mainvars

\* SocketServer.exit of lsst.ts.ess.sensors, called by read_loop: the server
\* is closed, and so is the stream writer that _writer refers to; with the
\* server already gone it returns after clearing _started.
sensors_exit(c) ==
    /\ ext.loops[c] = "loop"
    /\ ext' = IF ~ext.listening
              THEN [ext EXCEPT !.started = FALSE, !.loops[c] = "dead"]
              ELSE [ext EXCEPT
                      !.started = FALSE,
                      !.listening = FALSE,
                      !.writer = 0,
                      !.loops = [d \in Conns |->
                                   IF d = ext.writer THEN "none"
                                   ELSE IF d = c THEN "dead"
                                   ELSE ext.loops[d]],
                      !.last = [from |-> c, to |-> 0, name |-> "exit",
                                resp |-> None]]
    /\ UNCHANGED mainvars

\* The client of connection c closes it: readuntil raises
\* IncompleteReadError and read_loop returns; _writer is left as it is.
sensors_peer_closes(c) ==
    /\ ext.loops[c] # "none"
    /\ ext' = [ext EXCEPT !.loops[c] = "none"]
    /\ UNCHANGED mainvars

\* EssInstrument: a started instrument passes telemetry to the callback,
\* which is SocketServer.write.
sensors_telemetry(i) ==
    /\ i \in 1..Len(ext.instruments)
    /\ ext' = sensors_write(ext, 0, ext.instruments[i], "telemetry")
    /\ UNCHANGED mainvars

NextSensors ==
    \/ \E c \in Conns : read_loop_begins(c)
    \/ \E c \in Conns, p \in ValidPayloads : sensors_configure(c, p)
    \/ \E c \in Conns : sensors_start(c)
    \/ \E c \in Conns : sensors_stop(c)
    \/ \E c \in Conns : sensors_unknown(c)
    \/ \E c \in Conns : sensors_exit(c)
    \/ \E c \in Conns : sensors_peer_closes(c)
    \/ \E i \in 1..MaxInstruments : sensors_telemetry(i)

SpecSensors == InitSensors /\ [][NextSensors]_vars

(***************************************************************************)
(* The configuration validation on its own: CommandHandler.configure of a  *)
(* handler that is not started, and jsonschema.validate against            *)
(* CONFIG_JSCHEMA, each applied to a configuration drawn from a universe   *)
(* of well-formed and ill-formed dicts.                                    *)
(***************************************************************************)
\* The entries of the device list of a configuration.
MaxEntries == 2

\* Device entries: every combination of name, device type, sensor type,
\* channels and presence of the key of the transport, and entries that
\* lack a mandatory key or hold an unknown type.
EntryUniverse ==
    { Entry(n, dt, st, ch,
            IF dt = FTDI /\ tk THEN "ABC" ELSE Absent,
            IF dt = SERIAL /\ tk THEN "serial_ch_1" ELSE Absent) :
        n \in {"A", "B"}, dt \in {FTDI, SERIAL}, st \in {TEMPERATURE, WIND},
        ch \in {"4", Absent}, tk \in BOOLEAN }
    \cup
    { Entry(Absent, FTDI, TEMPERATURE, "4", "ABC", Absent),
      Entry("A", Absent, TEMPERATURE, "4", "ABC", Absent),
      Entry("A", FTDI, Absent, "4", "ABC", Absent),
      Entry("A", "USB", TEMPERATURE, "4", "ABC", Absent),
      Entry("A", FTDI, "Temp", "4", "ABC", Absent),
      Entry("A", SERIAL, "Temp", "4", Absent, "serial_ch_1") }

\* The device lists of at most n entries.
RECURSIVE EntryLists(_)
EntryLists(n) ==
    IF n = 0 THEN {<<>>}
    ELSE LET shorter == EntryLists(n - 1)
         IN  shorter \cup
             {Append(l, e) : l \in {x \in shorter : Len(x) = n - 1},
                             e \in EntryUniverse}

\* The configurations: with the key "devices" only, without it, and with a
\* second top-level key.
ConfigUniverse ==
    {Config({"devices"}, l) : l \in EntryLists(MaxEntries)}
    \cup {Config({"devices", "location"}, l) : l \in EntryLists(1)}
    \cup {Config({}, <<>>), Config({"location"}, <<>>)}

\* The sensor types of the enum of CONFIG_JSCHEMA.
schema_sensor_types == {"HX85A", "HX85BA", TEMPERATURE, WIND}

\* The schema of an item of "devices": TRUE when the entry violates it.
\* An "if" whose property is missing holds, so that its "then" applies.
schema_item_fails(e) ==
    \/ {"device_type", "name", "sensor_type"} \ EntryKeys(e) # {}
    \/ e.device_type \notin {FTDI, SERIAL}
    \/ e.sensor_type \notin schema_sensor_types
    \/ (e.sensor_type \in {TEMPERATURE, Absent} /\ "channels" \notin EntryKeys(e))
    \/ (e.device_type \in {FTDI, Absent} /\ "ftdi_id" \notin EntryKeys(e))
    \/ (e.device_type \in {SERIAL, Absent} /\ "serial_port" \notin EntryKeys(e))

\* jsonschema.validate(c, CONFIG_JSCHEMA): TRUE when it raises.  "items" is
\* a list of one schema, which in draft-07 is the schema of the item at
\* position one only; the items after it are not constrained.
schema_fails(c) ==
    \/ "devices" \notin c.keys
    \/ c.keys \ {"devices"} # {}
    \/ Len(c.devices) < 1
    \/ schema_item_fails(c.devices[1])

InitValidate ==
    /\ simulation_mode = 1
    /\ aarch64 = FALSE
    /\ connected = FALSE
    /\ read_loop_task = "pending"
    /\ configuration = NoConfiguration
    /\ started = FALSE
    /\ devices = <<>>
    /\ objs = <<>>
    /\ pc = "idle"
    /\ iter = 0
    /\ cmd = NoCmd
    /\ prev = NoCmd
    /\ seq = 0
    /\ emitted = 0
    /\ stopped_upto = 0
    /\ start_base = 0
    /\ serving = FALSE
    /\ \E c \in ConfigUniverse :
          ext = [spec |-> "validate", payload |-> c, response |-> None,
                 stored |-> NoConfiguration, schema |-> None]

\* handle_command("configure", configuration=payload) on a handler that is
\* not started.
validate_configure ==
    /\ ext.response = None
    /\ LET r == configure_response(FALSE, ext.payload)
       IN  ext' = [ext EXCEPT !.response = r,
                              !.stored = IF r = OK THEN ext.payload ELSE @]
    /\ UNCHANGED mainvars

\* jsonschema.validate(payload, CONFIG_JSCHEMA).
validate_schema ==
    /\ ext.schema = None
    /\ ext' = [ext EXCEPT !.schema =
                  IF schema_fails(ext.payload) THEN "ValidationError" ELSE OK]
    /\ UNCHANGED mainvars

NextValidate ==
    \/ validate_configure
    \/ validate_schema

SpecValidate == InitValidate /\ [][NextValidate]_vars

(***************************************************************************)
(* The decoders: extract_telemetry of TemperatureSensor, Hx85aSensor and   *)
(* WindSensor applied to a line.  A line is a sequence of tokens, each of  *)
(* which stands for a piece of text: "C" a letter, "1" a digit, "D" the    *)
(* text 9999.9990, and the characters "=", ",", CR and LF; the tokens of a *)
(* frame of the anemometer are its fields.                                 *)
(***************************************************************************)
MaxLineLen == 4
MaxChannels == 2

CR == "CR"
LF == "LF"
NaN == "nan"
Number == "num"
ValueError == "ValueError"
DISCONNECTED_VALUE == <<"D">>
NUM_VALUES == 3
START_CHARACTER == "STX"
END_CHARACTER == "ETX"
GOOD_STATUS == "00"
DEFAULT_DIRECTION_VAL == "999"
DEFAULT_SPEED_VAL == "9999.9990"

\* BaseSensor.__init__ and the overrides of the sub-classes.
TemperatureSensor(n) ==
    [type |-> TEMPERATURE, num_channels |-> n, terminator |-> <<CR, LF>>]
Hx85aSensor == [type |-> "HX85A", num_channels |-> 0, terminator |-> <<LF, CR>>]
WindSensor == [type |-> WIND, num_channels |-> 0, terminator |-> <<CR, LF>>]
Sensors ==
    {TemperatureSensor(n) : n \in 1..MaxChannels} \cup {Hx85aSensor, WindSensor}

\* The number of values that the sensor is documented to output.
DeclaredLength(sensor) ==
    CASE sensor.type = TEMPERATURE -> sensor.num_channels
      [] sensor.type = "HX85A" -> NUM_VALUES
      [] sensor.type = WIND -> 2

\* The lines of at most n tokens over the tokens of a text line.
LineTokens == {"C", "1", "D", "=", ",", CR, LF}
RECURSIVE TextLines(_)
TextLines(n) ==
    IF n = 0 THEN {<<>>}
    ELSE LET shorter == TextLines(n - 1)
         IN  shorter \cup
             {Append(l, t) : l \in {x \in shorter : Len(x) = n - 1},
                             t \in LineTokens}

\* str.strip(chars): drops the leading and the trailing characters that
\* are in chars.
RECURSIVE lstrip(_, _)
lstrip(line, chars) ==
    IF line # <<>> /\ Head(line) \in chars THEN lstrip(Tail(line), chars)
    ELSE line
RECURSIVE rstrip(_, _)
rstrip(line, chars) ==
    IF line # <<>> /\ line[Len(line)] \in chars
    THEN rstrip(SubSeq(line, 1, Len(line) - 1), chars)
    ELSE line
strip(line, chars) == rstrip(lstrip(line, chars), chars)

\* str.split(sep): the pieces between the occurrences of sep; one piece,
\* possibly empty, when sep does not occur.
RECURSIVE split(_, _)
split(line, sep) ==
    IF \A i \in 1..Len(line) : line[i] # sep THEN <<line>>
    ELSE LET i == CHOOSE i \in 1..Len(line) :
                      line[i] = sep /\ \A j \in 1..(i - 1) : line[j] # sep
         IN  <<SubSeq(line, 1, i - 1)>>
             \o split(SubSeq(line, i + 1, Len(line)), sep)

\* float(text): surrounding whitespace is ignored; the text is a number
\* when it is made of digits with at most one decimal point, which here
\* only the text 9999.9990 brings.
float(text) ==
    LET t == strip(text, {CR, LF})
    IN  IF /\ t # <<>>
           /\ \A i \in 1..Len(t) : t[i] \in {"1", "D"}
           /\ Cardinality({i \in 1..Len(t) : t[i] = "D"}) <= 1
        THEN Number ELSE ValueError

\* The value of one item of a line: NaN without "=", the number after one
\* "=", and ValueError otherwise.
item_value_no_sentinel(line_item, check_disconnected) ==
    LET items == split(line_item, "=")
    IN  IF Len(items) = 1 THEN NaN
        ELSE IF Len(items) = 2 THEN float(items[2])
        ELSE ValueError
item_value(line_item, check_disconnected) ==
    LET items == split(line_item, "=")
    IN  IF Len(items) = 1 THEN NaN
        ELSE IF Len(items) = 2
             THEN IF check_disconnected /\ items[2] = DISCONNECTED_VALUE
                  THEN NaN ELSE float(items[2])
             ELSE ValueError

\* while len(output) < n: output.insert(0, math.nan)
RECURSIVE pad_front(_, _)
pad_front(output, n) ==
    IF Len(output) < n THEN pad_front(<<NaN>> \o output, n) ELSE output

\* The outcome of a call: an exception, or the list that is returned.
Raises == [raises |-> TRUE, output |-> <<>>]
Returns(output) == [raises |-> FALSE, output |-> output]

\* extract_telemetry of TemperatureSensor and of Hx85aSensor, which differ
\* in the test of DISCONNECTED_VALUE and in the length that is padded to.
text_extract_telemetry_unpadded(sensor, line) ==
    LET line_items == split(strip(line, {sensor.terminator[1],
                                         sensor.terminator[2]}), ",")
        output == [k \in 1..Len(line_items) |->
                      item_value(line_items[k], sensor.type = TEMPERATURE)]
    IN  IF \E k \in 1..Len(output) : output[k] = ValueError THEN Raises
        ELSE Returns(output)
text_extract_telemetry(sensor, line) ==
    LET line_items == split(strip(line, {sensor.terminator[1],
                                         sensor.terminator[2]}), ",")
        output == [k \in 1..Len(line_items) |->
                      item_value(line_items[k], sensor.type = TEMPERATURE)]
    IN  IF \E k \in 1..Len(output) : output[k] = ValueError THEN Raises
        ELSE Returns(pad_front(output, IF sensor.type = TEMPERATURE
                                       THEN sensor.num_channels
                                       ELSE NUM_VALUES))

\* The fields of the frames of the anemometer, and the exclusive or of the
\* ordinals of the characters of each token.
WindDirections == {"010", DEFAULT_DIRECTION_VAL}
WindSpeeds == {"001.00"}
WindStatuses == {GOOD_STATUS, "01"}
WindChecksums == {"2F", "1E", "16", "2E", "26", "00"}
Ord ==
    [t \in {"Q", ",", "M", "010", "999", "001.00", "9999.9990", "00", "01"} |->
        CASE t = "Q" -> 81 [] t = "," -> 44 [] t = "M" -> 77
          [] t = "010" -> 49 [] t = "999" -> 57 [] t = "001.00" -> 31
          [] t = "9999.9990" -> 39 [] t = "00" -> 0 [] t = "01" -> 1]
int16 ==
    [t \in WindChecksums |->
        CASE t = "2F" -> 47 [] t = "1E" -> 30 [] t = "16" -> 22
          [] t = "2E" -> 46 [] t = "26" -> 38 [] t = "00" -> 0]

\* a ^ b on the integers of one byte.
RECURSIVE Xor(_, _)
Xor(a, b) ==
    IF a = 0 THEN b
    ELSE IF b = 0 THEN a
    ELSE 2 * Xor(a \div 2, b \div 2) + ((a + b) % 2)

RECURSIVE XorAll(_)
XorAll(tokens) ==
    IF tokens = <<>> THEN 0 ELSE Xor(Ord[Head(tokens)], XorAll(Tail(tokens)))

\* '<STX>Q,ddd,sss.ss,M,00,<ETX>checksum<CR><LF>'; the direction may be
\* empty.
WindFrame(direction, speed, status, checksum) ==
    <<START_CHARACTER, "Q", ",">> \o direction
    \o <<",", speed, ",", "M", ",", status, ",", END_CHARACTER, checksum,
         CR, LF>>

WindLines ==
    LET frames == {WindFrame(d, sp, st, ck) :
                       d \in {<<>>} \cup {<<x>> : x \in WindDirections},
                       sp \in WindSpeeds \cup {DEFAULT_SPEED_VAL},
                       st \in WindStatuses,
                       ck \in WindChecksums}
    IN  frames
        \cup {Tail(f) : f \in frames}
        \cup {SubSeq(f, 1, Len(f) - 2) : f \in frames}
        \cup {<<>>, <<CR, LF>>, <<LF, CR>>, <<CR>>, <<CR, LF, CR, LF>>}

\* re.search(self.telemetry_pattern, line): whether the line matches, and
\* the groups of the match.
telemetry_pattern(line) ==
    LET d == IF Len(line) = 15 THEN 1 ELSE 0
    IN  IF /\ Len(line) \in {14, 15}
           /\ SubSeq(line, 1, 3) = <<START_CHARACTER, "Q", ",">>
           /\ d = 1 => line[4] \in WindDirections
           /\ line[4 + d] = ","
           /\ line[5 + d] \in WindSpeeds
           /\ SubSeq(line, 6 + d, 8 + d) = <<",", "M", ",">>
           /\ line[9 + d] \in WindStatuses
           /\ SubSeq(line, 10 + d, 11 + d) = <<",", END_CHARACTER>>
           /\ line[12 + d] \in WindChecksums
           /\ SubSeq(line, 13 + d, 14 + d) = <<CR, LF>>
        THEN [matched |-> TRUE,
              direction |-> IF d = 1 THEN <<line[4]>> ELSE <<>>,
              speed |-> line[5 + d], status |-> line[9 + d],
              checksum |-> line[12 + d]]
        ELSE [matched |-> FALSE]

\* WindSensor.extract_telemetry.
wind_extract_telemetry_unchecked(sensor, line) ==
    LET m == telemetry_pattern(line)
    IN  IF m.matched
        THEN Returns(<<IF m.speed = DEFAULT_SPEED_VAL THEN NaN ELSE Number,
                       IF \/ m.direction = <<DEFAULT_DIRECTION_VAL>>
                          \/ m.direction = <<>>
                       THEN NaN ELSE Number>>)
        ELSE IF line = sensor.terminator THEN Returns(<<NaN, NaN>>)
        ELSE Raises
wind_extract_telemetry(sensor, line) ==
    LET m == telemetry_pattern(line)
    IN  IF m.matched
        THEN LET checksum == XorAll(<<"Q", ",">> \o m.direction
                                    \o <<",", m.speed, ",", "M", ",",
                                         m.status, ",">>)
             IN  IF checksum # int16[m.checksum]
                 THEN Returns(<<NaN, NaN>>)
                 ELSE Returns(<<IF m.speed = DEFAULT_SPEED_VAL
                                THEN NaN ELSE Number,
                                IF \/ m.direction = <<DEFAULT_DIRECTION_VAL>>
                                   \/ m.direction = <<>>
                                THEN NaN ELSE Number>>)
        ELSE IF line = sensor.terminator THEN Returns(<<NaN, NaN>>)
        ELSE Raises

extract_telemetry(sensor, line) ==
    IF sensor.type = WIND THEN wind_extract_telemetry(sensor, line)
    ELSE text_extract_telemetry(sensor, line)

\* The lines that a sensor is given.
Lines(sensor) ==
    IF sensor.type = WIND THEN WindLines ELSE TextLines(MaxLineLen)

InitSensor ==
    /\ simulation_mode = 1
    /\ aarch64 = FALSE
    /\ connected = FALSE
    /\ read_loop_task = "pending"
    /\ configuration = NoConfiguration
    /\ started = FALSE
    /\ devices = <<>>
    /\ objs = <<>>
    /\ pc = "idle"
    /\ iter = 0
    /\ cmd = NoCmd
    /\ prev = NoCmd
    /\ seq = 0
    /\ emitted = 0
    /\ stopped_upto = 0
    /\ start_base = 0
    /\ serving = FALSE
    /\ \E sensor \in Sensors : \E line \in Lines(sensor) :
          ext = [spec |-> "sensor", sensor |-> sensor, line |-> line,
                 called |-> FALSE, raised |-> FALSE, output |-> <<>>]

\* await sensor.extract_telemetry(line)
sensor_extract_telemetry ==
    /\ ~ext.called
    /\ LET r == extract_telemetry(ext.sensor, ext.line)
       IN  ext' = [ext EXCEPT !.called = TRUE, !.raised = r.raises,
                              !.output = r.output]
    /\ UNCHANGED mainvars

NextSensor ==
    \/ sensor_extract_telemetry

SpecSensor == InitSensor /\ [][NextSensor]_vars

(***************************************************************************)
(* The read loop of a device: BaseDevice._run of ess.controller, from the  *)
(* moment open has created the task.  Each await of the loop is a step:    *)
(* readline, which returns a line or raises, extract_telemetry and the     *)
(* callback.  close cancels the task while it is suspended.                *)
(***************************************************************************)
MaxReads == 2
MaxRunLineLen == 2

\* The lines that readline returns to the loop.
RunLines(sensor) ==
    IF sensor.type = WIND THEN WindLines ELSE TextLines(MaxRunLineLen)

NoFrame == [response |-> None, values |-> <<>>]

InitRun ==
    /\ simulation_mode = 1
    /\ aarch64 = FALSE
    /\ connected = FALSE
    /\ read_loop_task = "pending"
    /\ configuration = NoConfiguration
    /\ started = FALSE
    /\ devices = <<>>
    /\ objs = <<>>
    /\ pc = "idle"
    /\ iter = 0
    /\ cmd = NoCmd
    /\ prev = NoCmd
    /\ seq = 0
    /\ emitted = 0
    /\ stopped_upto = 0
    /\ start_base = 0
    /\ serving = FALSE
    /\ \E sensor \in Sensors, e \in BOOLEAN :
          ext = [spec |-> "run", sensor |-> sensor, in_error_state |-> e,
                 task |-> "running", at |-> "readline", line |-> <<>>,
                 response |-> OK, sensor_telemetry |-> <<>>, failed |-> FALSE,
                 reads |-> 0, frames |-> 0, reply |-> NoFrame]

\* if self._in_error_state: response = DEVICE_READ_ERROR
run_response(response, in_error_state) ==
    IF in_error_state THEN DEVICE_READ_ERROR ELSE response

\* line = await self.readline() returns.
run_readline_returns(line) ==
    /\ ext.task = "running" /\ ext.at = "readline"
    /\ ext.reads < MaxReads
    /\ ext' = [ext EXCEPT !.reads = @ + 1, !.line = line, !.failed = FALSE,
                          !.response = run_response(OK, ext.in_error_state),
                          !.at = "extract_telemetry"]
    /\ UNCHANGED mainvars

\* except Exception: the line becomes the terminator of the sensor and the
\* response DEVICE_READ_ERROR.
run_readline_raises_response_ok ==
    /\ ext.task = "running" /\ ext.at = "readline"
    /\ ext.reads < MaxReads
    /\ ext' = [ext EXCEPT !.reads = @ + 1, !.line = ext.sensor.terminator,
                          !.failed = TRUE,
                          !.response = run_response(OK, ext.in_error_state),
                          !.at = "extract_telemetry"]
    /\ UNCHANGED mainvars
run_readline_raises ==
    /\ ext.task = "running" /\ ext.at = "readline"
    /\ ext.reads < MaxReads
    /\ ext' = [ext EXCEPT !.reads = @ + 1, !.line = ext.sensor.terminator,
                          !.failed = TRUE,
                          !.response = run_response(DEVICE_READ_ERROR,
                                                    ext.in_error_state),
                          !.at = "extract_telemetry"]
    /\ UNCHANGED mainvars

\* sensor_telemetry = await self._sensor.extract_telemetry(line=line): the
\* call is outside the try statement, so that an exception of the decoder
\* ends the task.
run_extract_telemetry ==
    /\ ext.task = "running" /\ ext.at = "extract_telemetry"
    /\ LET r == extract_telemetry(ext.sensor, ext.line)
       IN  ext' = IF r.raises
                  THEN [ext EXCEPT !.task = RAISED, !.at = "done"]
                  ELSE [ext EXCEPT !.sensor_telemetry = r.output,
                                   !.at = "callback"]
    /\ UNCHANGED mainvars

\* await self._callback_func(reply), and the test of the while statement.
run_callback ==
    /\ ext.task = "running" /\ ext.at = "callback"
    /\ ext' = [ext EXCEPT !.frames = @ + 1,
                          !.reply = [response |-> ext.response,
                                     values |-> ext.sensor_telemetry],
                          !.at = "readline"]
    /\ UNCHANGED mainvars

\* close: self._telemetry_loop.cancel() while the task is suspended in
\* readline or in the callback.
run_cancel ==
    /\ ext.task = "running" /\ ext.at \in {"readline", "callback"}
    /\ ext' = [ext EXCEPT !.task = CANCELLED, !.at = "done"]
    /\ UNCHANGED mainvars

NextRun ==
    \/ \E line \in RunLines(ext.sensor) : run_readline_returns(line)
    \/ run_readline_raises
    \/ run_extract_telemetry
    \/ run_callback
    \/ run_cancel

SpecRun == InitRun /\ [][NextRun]_vars

(***************************************************************************)
(* handle_readline_exception of VcpFtdi and of SensirionSps30, which are   *)
(* the same code, inside the read loop that calls it.  That loop belongs   *)
(* to common.device.BaseDevice; its steps follow section 4.3 of the        *)
(* specification: an exception of readline, a cancellation included, is    *)
(* handed to the hook; when the hook raises the exception again the loop   *)
(* opens the device again and reads on; a cancellation ends the loop.      *)
(***************************************************************************)
MaxFailures == 2

CancelledError == "CancelledError"
ReadExceptions == {"SerialException", "TimeoutError"}
HookDevices == {"VcpFtdi", "SensirionSps30"}

InitHook ==
    /\ simulation_mode = 1
    /\ aarch64 = FALSE
    /\ connected = FALSE
    /\ read_loop_task = "pending"
    /\ configuration = NoConfiguration
    /\ started = FALSE
    /\ devices = <<>>
    /\ objs = <<>>
    /\ pc = "idle"
    /\ iter = 0
    /\ cmd = NoCmd
    /\ prev = NoCmd
    /\ seq = 0
    /\ emitted = 0
    /\ stopped_upto = 0
    /\ start_base = 0
    /\ serving = FALSE
    /\ \E dev \in HookDevices :
          ext = [spec |-> "hook", device |-> dev, task |-> "running",
                 at |-> "readline", exception |-> None, is_open |-> TRUE,
                 reads |-> 0, failures |-> 0, opens |-> 1, closes |-> 0,
                 sleeps |-> 0, in_backoff |-> FALSE, frames |-> 0]

\* The loop: readline returns a line, which is decoded and delivered to
\* the callback.
hook_readline_returns ==
    /\ ext.task = "running" /\ ext.at = "readline"
    /\ ext.reads < MaxReads
    /\ ext' = [ext EXCEPT !.reads = @ + 1, !.frames = @ + 1]
    /\ UNCHANGED mainvars

\* The loop: readline raises, or times out, and the exception goes to the
\* hook.
hook_readline_raises(e) ==
    /\ ext.task = "running" /\ ext.at = "readline"
    /\ ext.failures < MaxFailures
    /\ ext' = [ext EXCEPT !.failures = @ + 1, !.exception = e,
                          !.at = "handle_readline_exception"]
    /\ UNCHANGED mainvars

\* The loop: the task is cancelled while it awaits readline; the
\* CancelledError goes to the hook.
hook_readline_cancelled ==
    /\ ext.task = "running" /\ ext.at = "readline"
    /\ ext' = [ext EXCEPT !.exception = CancelledError,
                          !.at = "handle_readline_exception"]
    /\ UNCHANGED mainvars

\* handle_readline_exception up to its first suspension: for an exception
\* that is not a CancelledError, log, basic_close, which raises when the
\* port does not close, and the start of the sleep; for a CancelledError
\* nothing, and the hook returns.
handle_readline_exception_any(closed) ==
    /\ ext.task = "running" /\ ext.at = "handle_readline_exception"
    /\ ext' = IF closed
              THEN [ext EXCEPT !.closes = @ + 1, !.is_open = FALSE,
                               !.sleeps = @ + 1, !.at = "sleep"]
              ELSE [ext EXCEPT !.closes = @ + 1, !.exception = "IOError",
                               !.at = "raised"]
    /\ UNCHANGED mainvars
handle_readline_exception(closed) ==
    /\ ext.task = "running" /\ ext.at = "handle_readline_exception"
    /\ ext' = IF ext.exception = CancelledError
              THEN [ext EXCEPT !.at = "returned"]
              ELSE IF closed
              THEN [ext EXCEPT !.closes = @ + 1, !.is_open = FALSE,
                               !.sleeps = @ + 1, !.at = "sleep"]
              ELSE [ext EXCEPT !.closes = @ + 1, !.exception = "IOError",
                               !.at = "raised"]
    /\ UNCHANGED mainvars

\* await asyncio.sleep(self.reconnect_sleep) ends, and the statement raise
\* raises the exception of readline again.
handle_readline_exception_returns ==
    /\ ext.task = "running" /\ ext.at = "sleep"
    /\ ext' = [ext EXCEPT !.at = "returned"]
    /\ UNCHANGED mainvars
handle_readline_exception_raises ==
    /\ ext.task = "running" /\ ext.at = "sleep"
    /\ ext' = [ext EXCEPT !.at = "raised"]
    /\ UNCHANGED mainvars

\* The task is cancelled during the sleep: asyncio.sleep raises
\* CancelledError, which nothing in the hook catches.
handle_readline_exception_cancelled ==
    /\ ext.task = "running" /\ ext.at = "sleep"
    /\ ext' = [ext EXCEPT !.exception = CancelledError, !.at = "raised",
                          !.in_backoff = TRUE]
    /\ UNCHANGED mainvars

\* The loop after the hook: a cancellation ends the task; when the hook
\* has raised the exception again the loop opens the device again and
\* reads on, without a frame; when the hook has returned, the frame with
\* DEVICE_READ_ERROR is delivered.
hook_loop_continues ==
    /\ ext.task = "running" /\ ext.at \in {"returned", "raised"}
    /\ ext' = IF ext.exception = CancelledError
              THEN [ext EXCEPT !.task = CANCELLED, !.at = "done"]
              ELSE IF ext.at = "raised"
              THEN [ext EXCEPT !.opens = @ + 1, !.is_open = TRUE,
                               !.exception = None, !.at = "readline"]
              ELSE [ext EXCEPT !.frames = @ + 1, !.exception = None,
                               !.at = "readline"]
    /\ UNCHANGED mainvars

NextHook ==
    \/ hook_readline_returns
    \/ \E e \in ReadExceptions : hook_readline_raises(e)
    \/ hook_readline_cancelled
    \/ \E closed \in BOOLEAN : handle_readline_exception(closed)
    \/ handle_readline_exception_raises
    \/ handle_readline_exception_cancelled
    \/ hook_loop_continues

SpecHook == InitHook /\ [][NextHook]_vars

(***************************************************************************)
(* The Sensirion SPS30: start_measurement and stop_measurement of SPS30,   *)
(* one step for each pass of their loops, and SensirionSps30.readline.  A  *)
(* reply is the sequence of the bytes that _blocking_get_reply returns.    *)
(***************************************************************************)
EXPECTED_DATA_LENGTH == 47
TELEMETRY_LENGTH == 10
MAX_NUM_START_STOP_ATTEMPS == 5
DATA_START_INDEX == 5
DATA_END_INDEX == 45
START_STOP == 126

\* Sps30Reply.
CORRECT_START == <<126, 0, 0, 0, 0, 255, 126>>
CORRECT_STOP == <<126, 0, 1, 0, 0, 254, 126>>
EMPTY == <<126, 0, 3, 0, 0, 252, 126>>
INCORRECT_START == <<126, 0, 0, 67, 0, 188, 126>>
INCORRECT_STOP == <<126, 0, 1, 67, 0, 187, 126>>

\* The reply to READ_MEASURED_VALUES with n bytes of data, all b, and the
\* checksum byte ck.
MeasuredValues(n, b, ck) ==
    <<START_STOP, 0, 3, 0, 40>> \o [i \in 1..n |-> b] \o <<ck, START_STOP>>

MeasuredReplies ==
    {MeasuredValues(n, b, ck) :
        n \in {39, 40, 41}, b \in {0, 1}, ck \in {212, 211, 172, 0}}

\* The shortest reply that _blocking_get_reply returns.
ShortReply == <<START_STOP, 0, 0, 0, 255, START_STOP>>

\* What awaiting _get_reply gives: a reply, or an exception: the
\* SerialException of serial.read, the ValueError of a wrong first or
\* second byte, the TypeError of ord(b"") when the read of the second byte
\* times out.
GotReply(r) == [raises |-> None, reply |-> r]
GetReplyRaises(e) == [raises |-> e, reply |-> <<>>]
ReplyExceptions ==
    {GetReplyRaises(e) : e \in {"SerialException", "ValueError", "TypeError"}}
StartStopOutcomes ==
    {GotReply(r) : r \in {CORRECT_START, CORRECT_STOP, EMPTY, INCORRECT_START,
                          INCORRECT_STOP, ShortReply,
                          MeasuredValues(40, 0, 212)}}
    \cup ReplyExceptions
ReadOutcomes ==
    {GotReply(r) : r \in MeasuredReplies \cup {EMPTY, ShortReply}}
    \cup ReplyExceptions

RECURSIVE Sum(_)
Sum(bytes) == IF bytes = <<>> THEN 0 ELSE Head(bytes) + Sum(Tail(bytes))

\* bytes[start:stop] for indices that are not negative.
slice(bytes, start, stop) ==
    SubSeq(bytes, start + 1, IF stop > Len(bytes) THEN Len(bytes) ELSE stop)

\* compute_checksum: 255 - (sum(binary_data[1:-2]) % 256)
compute_checksum(binary_data) ==
    255 - (Sum(slice(binary_data, 1, Len(binary_data) - 2)) % 256)

\* unpack_measured_values: ten NaN unless the data has 40 bytes.
unpack_measured_values(binary_data) ==
    IF Len(binary_data) # 40 THEN [k \in 1..10 |-> NaN]
    ELSE [k \in 1..10 |-> Number]

\* The line that readline builds from the reply: empty when the length or
\* the checksum is wrong, otherwise the time, 0.0 and the values.
sps30_line_any_length(hex_reply) ==
    IF compute_checksum(hex_reply) # hex_reply[Len(hex_reply) - 1] THEN <<>>
    ELSE <<"tai", "0.0">>
         \o unpack_measured_values(
                slice(hex_reply, DATA_START_INDEX, DATA_END_INDEX))
sps30_line(hex_reply) ==
    IF Len(hex_reply) # EXPECTED_DATA_LENGTH THEN <<>>
    ELSE IF compute_checksum(hex_reply) # hex_reply[Len(hex_reply) - 1]
    THEN <<>>
    ELSE <<"tai", "0.0">>
         \o unpack_measured_values(
                slice(hex_reply, DATA_START_INDEX, DATA_END_INDEX))

InitSps30 ==
    /\ simulation_mode = 1
    /\ aarch64 = FALSE
    /\ connected = FALSE
    /\ read_loop_task = "pending"
    /\ configuration = NoConfiguration
    /\ started = FALSE
    /\ devices = <<>>
    /\ objs = <<>>
    /\ pc = "idle"
    /\ iter = 0
    /\ cmd = NoCmd
    /\ prev = NoCmd
    /\ seq = 0
    /\ emitted = 0
    /\ stopped_upto = 0
    /\ start_base = 0
    /\ serving = FALSE
    /\ ext = [spec |-> "sps30", op |-> "idle", and_start |-> FALSE,
              num_attempts |-> 0, sends |-> 0, hex_reply |-> <<>>,
              result |-> None, calls |-> 0, read |-> GotReply(<<>>),
              line |-> <<>>, returned |-> FALSE, in_readline |-> FALSE]

\* A call of start_measurement or of stop_measurement.
sps30_call(op) ==
    /\ ext.op = "idle"
    /\ ext.calls < MaxCalls
    /\ ext' = [ext EXCEPT !.op = op, !.and_start = FALSE, !.calls = @ + 1,
                          !.num_attempts = 0, !.sends = 0, !.hex_reply = <<>>,
                          !.result = None, !.returned = FALSE,
                          !.in_readline = FALSE]
    /\ UNCHANGED mainvars

\* basic_open: stop_and_start.
sps30_stop_and_start ==
    /\ ext.op = "idle"
    /\ ext.calls < MaxCalls
    /\ ext' = [ext EXCEPT !.op = "stop", !.and_start = TRUE, !.calls = @ + 1,
                          !.num_attempts = 0, !.sends = 0, !.hex_reply = <<>>,
                          !.result = None, !.returned = FALSE,
                          !.in_readline = FALSE]
    /\ UNCHANGED mainvars

\* The end of an operation: stop_and_start goes on with start_measurement
\* when stop_measurement has returned.  When readline has called
\* stop_and_start, readline returns its line after it, and an exception of
\* stop_and_start leaves readline.
sps30_ends(e, result) ==
    IF result = "returned" /\ e.op = "stop" /\ e.and_start
    THEN [e EXCEPT !.op = "start", !.and_start = FALSE, !.num_attempts = 0,
                   !.sends = 0, !.hex_reply = <<>>]
    ELSE [e EXCEPT !.op = "idle", !.and_start = FALSE, !.result = result,
                   !.returned = e.in_readline /\ result = "returned"]

\* One pass of the loop of start_measurement and the test of the while
\* statement that follows it.
start_measurement(o) ==
    /\ ext.op = "start"
    /\ LET e == [ext EXCEPT !.num_attempts = @ + 1, !.sends = @ + 1,
                            !.hex_reply = IF o.raises = None THEN o.reply
                                          ELSE @]
       IN  ext' =
             IF o.raises \in {"SerialException", "ValueError"}
             THEN sps30_ends(e, "StartMeasurementError")
             ELSE IF o.raises # None THEN sps30_ends(e, o.raises)
             ELSE IF Len(o.reply) > Len(CORRECT_START)
             THEN sps30_ends(e, "returned")
             ELSE IF e.num_attempts > MAX_NUM_START_STOP_ATTEMPS
             THEN sps30_ends(e, "StartMeasurementError")
             ELSE IF o.reply \in {CORRECT_START, INCORRECT_START}
             THEN sps30_ends(e, "returned")
             ELSE e
    /\ UNCHANGED mainvars

\* One pass of the loop of stop_measurement and the test of the while
\* statement that follows it.
stop_measurement(o) ==
    /\ ext.op = "stop"
    /\ LET e == [ext EXCEPT !.num_attempts = @ + 1, !.sends = @ + 1,
                            !.hex_reply = IF o.raises = None THEN o.reply
                                          ELSE @]
       IN  ext' =
             IF o.raises = "TypeError" THEN sps30_ends(e, o.raises)
             ELSE IF e.num_attempts > MAX_NUM_START_STOP_ATTEMPS
             THEN sps30_ends(e, "StopMeasurementError")
             ELSE IF e.hex_reply \in {CORRECT_STOP, INCORRECT_STOP, EMPTY}
             THEN sps30_ends(e, "returned")
             ELSE e
    /\ UNCHANGED mainvars

\* SensirionSps30.readline: the reply of read_measured_values makes the
\* line; after a SerialException or a ValueError the line stays empty and
\* stop_and_start runs before readline returns; another exception leaves
\* readline.
sps30_readline(o) ==
    /\ ext.op = "idle"
    /\ ext.calls < MaxCalls
    /\ LET e == [ext EXCEPT !.calls = @ + 1, !.read = o, !.result = None,
                            !.in_readline = TRUE,
                            !.num_attempts = 0, !.sends = 0,
                            !.hex_reply = <<>>,
                            !.line = IF o.raises = None
                                     THEN sps30_line(o.reply) ELSE <<>>]
       IN  ext' =
             IF o.raises = None
             THEN [e EXCEPT !.returned = TRUE, !.result = "returned"]
             ELSE IF o.raises \in {"SerialException", "ValueError"}
             THEN [e EXCEPT !.returned = FALSE, !.op = "stop",
                            !.and_start = TRUE]
             ELSE [e EXCEPT !.returned = FALSE, !.result = o.raises]
    /\ UNCHANGED mainvars

NextSps30 ==
    \/ \E op \in {"start", "stop"} : sps30_call(op)
    \/ sps30_stop_and_start
    \/ \E o \in StartStopOutcomes : start_measurement(o)
    \/ \E o \in StartStopOutcomes : stop_measurement(o)
    \/ \E o \in ReadOutcomes : sps30_readline(o)

SpecSps30 == InitSps30 /\ [][NextSps30]_vars

(***************************************************************************)
(* SPS30.read_measured_values: the read timer and the loop that repeats    *)
(* the command while the reply is EMPTY, one step for each pass.  Times    *)
(* are in hundredths of a second.                                          *)
(***************************************************************************)
READ_SLEEP_TIME == 90
MINIMAL_SLEEP_TIME == 1
MAX_NUM_READ_ATTEMPTS == 60

ReadReplies ==
    {GotReply(r) : r \in {EMPTY, ShortReply, MeasuredValues(40, 0, 212)}}
    \cup {GetReplyRaises("SerialException")}

\* The passing of an amount of time: the read timer runs down, and the
\* time since the last READ_MEASURED_VALUES grows, counted up to
\* READ_SLEEP_TIME.
elapse(e, time) ==
    [e EXCEPT !.timer = IF @ > time THEN @ - time ELSE 0,
              !.since_read = IF @ + time < READ_SLEEP_TIME THEN @ + time
                             ELSE READ_SLEEP_TIME]

InitSps30Read ==
    /\ simulation_mode = 1
    /\ aarch64 = FALSE
    /\ connected = FALSE
    /\ read_loop_task = "pending"
    /\ configuration = NoConfiguration
    /\ started = FALSE
    /\ devices = <<>>
    /\ objs = <<>>
    /\ pc = "idle"
    /\ iter = 0
    /\ cmd = NoCmd
    /\ prev = NoCmd
    /\ seq = 0
    /\ emitted = 0
    /\ stopped_upto = 0
    /\ start_base = 0
    /\ serving = FALSE
    /\ ext = [spec |-> "sps30read", op |-> "idle", timer |-> 0,
              since_read |-> READ_SLEEP_TIME, gap |-> READ_SLEEP_TIME,
              num_attempts |-> 0, sends |-> 0, hex_reply |-> EMPTY,
              result |-> None, calls |-> 0]

\* The call of read_measured_values, at once after the call before it or
\* READ_SLEEP_TIME later: a read timer that is done is started again and
\* the call goes on, one that is not done is awaited.
read_measured_values_called ==
    /\ ext.op = "idle"
    /\ ext.calls < MaxCalls
    /\ \E pause \in {0, READ_SLEEP_TIME} :
          LET e == [elapse(ext, pause) EXCEPT
                       !.op = "read", !.calls = @ + 1, !.num_attempts = 0,
                       !.sends = 0, !.hex_reply = EMPTY, !.result = None]
          IN  ext' = IF e.timer = 0
                     THEN [e EXCEPT !.timer = READ_SLEEP_TIME]
                     ELSE elapse(e, e.timer)
    /\ UNCHANGED mainvars

\* One pass of the loop: the command is written, MINIMAL_SLEEP_TIME
\* passes, the reply is read, and the loop ends when the attempts are used
\* up or the reply is not EMPTY.
read_measured_values(o) ==
    /\ ext.op = "read"
    /\ LET w == [ext EXCEPT !.num_attempts = @ + 1, !.sends = @ + 1,
                            !.gap = IF ext.sends = 0 THEN ext.since_read
                                    ELSE @,
                            !.since_read = 0]
           e == elapse(w, MINIMAL_SLEEP_TIME)
       IN  ext' =
             IF o.raises # None
             THEN [e EXCEPT !.op = "idle", !.result = o.raises]
             ELSE IF e.num_attempts > MAX_NUM_READ_ATTEMPTS
                     \/ o.reply # EMPTY
             THEN [e EXCEPT !.op = "idle", !.result = "returned",
                            !.hex_reply = o.reply]
             ELSE [e EXCEPT !.hex_reply = o.reply]
    /\ UNCHANGED mainvars

NextSps30Read ==
    \/ read_measured_values_called
    \/ \E o \in ReadReplies : read_measured_values(o)

SpecSps30Read == InitSps30Read /\ [][NextSps30Read]_vars

(***************************************************************************)
(* VcpFtdi.readline on a port that repeats one frame, as MockSerial does:  *)
(* one step for each character that is read and one for the return.  The   *)
(* first read starts at any offset of the frame.                           *)
(***************************************************************************)
\* MOCK_REPLY: the text of a frame and the terminator of the sensor, with
\* or without a stray character between its two characters.
MOCK_REPLY(terminator, stray) ==
    <<"C", "=", "1", terminator[1]>>
    \o (IF stray THEN <<"NUL">> ELSE <<>>) \o <<terminator[2]>>

\* enhanced_terminator_regex.sub(terminator, line): every occurrence of
\* the first character of the terminator, at most one character that is
\* not a line feed, and the second character becomes the terminator.
RECURSIVE enhanced_terminator_sub(_, _)
enhanced_terminator_sub(terminator, line) ==
    IF line = <<>> THEN <<>>
    ELSE IF /\ Len(line) >= 3
            /\ line[1] = terminator[1]
            /\ line[2] # LF
            /\ line[3] = terminator[2]
    THEN terminator
         \o enhanced_terminator_sub(terminator, SubSeq(line, 4, Len(line)))
    ELSE IF /\ Len(line) >= 2
            /\ line[1] = terminator[1]
            /\ line[2] = terminator[2]
    THEN terminator
         \o enhanced_terminator_sub(terminator, SubSeq(line, 3, Len(line)))
    ELSE <<line[1]>> \o enhanced_terminator_sub(terminator, Tail(line))

InitFtdi ==
    /\ simulation_mode = 1
    /\ aarch64 = FALSE
    /\ connected = FALSE
    /\ read_loop_task = "pending"
    /\ configuration = NoConfiguration
    /\ started = FALSE
    /\ devices = <<>>
    /\ objs = <<>>
    /\ pc = "idle"
    /\ iter = 0
    /\ cmd = NoCmd
    /\ prev = NoCmd
    /\ seq = 0
    /\ emitted = 0
    /\ stopped_upto = 0
    /\ start_base = 0
    /\ serving = FALSE
    /\ \E terminator \in {<<CR, LF>>, <<LF, CR>>}, stray \in BOOLEAN :
       \E offset \in 0..(Len(MOCK_REPLY(terminator, stray)) - 1) :
          ext = [spec |-> "ftdi", terminator |-> terminator,
                 reply |-> MOCK_REPLY(terminator, stray), start |-> offset,
                 char_count |-> offset, line |-> <<>>, returned |-> <<>>,
                 readlines |-> 0]

\* while not ("\r" in line and "\n" in line): line += vcp.read(1)
ftdi_read ==
    /\ ext.readlines < MaxReads
    /\ ~(\E i, j \in 1..Len(ext.line) : ext.line[i] = CR /\ ext.line[j] = LF)
    /\ ext' = [ext EXCEPT !.line = Append(@, ext.reply[ext.char_count + 1]),
                          !.char_count = (@ + 1) % Len(ext.reply)]
    /\ UNCHANGED mainvars

\* The end of the loop, the substitution and the return of the line.
ftdi_readline_returns ==
    /\ ext.readlines < MaxReads
    /\ \E i, j \in 1..Len(ext.line) : ext.line[i] = CR /\ ext.line[j] = LF
    /\ ext' = [ext EXCEPT !.returned =
                              enhanced_terminator_sub(ext.terminator, ext.line),
                          !.line = <<>>, !.readlines = @ + 1]
    /\ UNCHANGED mainvars

NextFtdi ==
    \/ ftdi_read
    \/ ftdi_readline_returns

SpecFtdi == InitFtdi /\ [][NextFtdi]_vars

(***************************************************************************)
(* Properties.                                                             *)
(***************************************************************************)
\* The step dispatches command n to the handler.
Dispatched(n) == seq' # seq /\ cmd'.name = n

\* The commands of CommandHandler.dispatch_dict.
HandlerCommands == {"configure", "start", "stop"}

\* The devices of the handler's list.
Listed == {devices[j] : j \in 1..Len(devices)}

\* C1: a start received while the handler is Running is answered
\* ALREADY_STARTED and leaves the configuration, the started flag, the
\* device list and the devices with their tasks unchanged.
C1_StartWhileRunningIgnored ==
    [][(Dispatched("start") /\ started)
          => (cmd'.resp = ALREADY_STARTED /\ UNCHANGED hvars)]_vars

\* C2: after a start that failed because a device could not be created or
\* opened, no device of the handler's list is open or has a live task, and
\* the handler is not started.
C2_FailedStartLeavesNothingRunning ==
    (cmd.name = "start" /\ cmd.resp = RAISED)
        => /\ ~started
           /\ \A d \in Listed : ~objs[d].is_open /\ ~Live(objs[d])

\* C3: when the handling of a configure, start or stop command has ended
\* (the read loop is ready for the next command or has ended), exactly one
\* response was passed to the callback for it.  A command cut short by the
\* disconnection of its client is not counted.
C3_OneResponsePerCommand ==
    (pc = "idle" /\ cmd.name \in HandlerCommands /\ cmd.resp # CANCELLED)
        => cmd.resp \in ResponseCodes

\* C4: once a stop has been answered OK, no telemetry is delivered for a
\* device that was created before that answer.
C4_NoTelemetryAfterStop ==
    emitted = 0 \/ emitted > stopped_upto

\* C5: while no client is connected (after a disconnection), the handler is
\* not started and no device has a live acquisition task.
C5_DisconnectStopsHandler ==
    ~connected
        => /\ ~started
           /\ \A d \in 1..Len(objs) : ~Live(objs[d])

\* C6: a start received when no configuration was ever stored is answered
\* NOT_CONFIGURED, creates no device and leaves the started flag false.
C6_StartUnconfigured ==
    [][(Dispatched("start") /\ configuration = NoConfiguration)
          => /\ cmd'.resp = NOT_CONFIGURED
             /\ ~started'
             /\ UNCHANGED hvars]_vars

C6_Witness ==
    /\ cmd.name = "start"
    /\ cmd.resp = NOT_CONFIGURED
    /\ configuration = NoConfiguration
    /\ objs = <<>>

\* C7: a configure received while the handler is Running is answered
\* ALREADY_STARTED, whatever its payload, and leaves the stored
\* configuration, the device list and the started flag unchanged.
C7_ConfigureWhileRunning ==
    [][(Dispatched("configure") /\ started)
          => (cmd'.resp = ALREADY_STARTED /\ UNCHANGED hvars)]_vars

C7_Witness ==
    /\ cmd.name = "configure"
    /\ cmd.resp = ALREADY_STARTED
    /\ cmd.payload \in InvalidPayloads
    /\ prev.name = "configure"
    /\ prev.resp = ALREADY_STARTED
    /\ prev.payload \in ValidPayloads
    /\ prev.payload # configuration
    /\ started

\* C8: a stop received when the handler is not Running is answered
\* NOT_STARTED and changes nothing; and a stop that follows a stop answered
\* OK is answered NOT_STARTED.
C8_StopNotStarted ==
    /\ [][(Dispatched("stop") /\ ~started)
            => (cmd'.resp = NOT_STARTED /\ UNCHANGED hvars)]_vars
    /\ []((prev.name = "stop" /\ prev.resp = OK /\ cmd.name = "stop")
            => cmd.resp = NOT_STARTED)

C8_Witness ==
    /\ prev.name = "stop"
    /\ prev.resp = OK
    /\ cmd.name = "stop"
    /\ cmd.resp = NOT_STARTED

\* C9 as stated: in any handler state a configure whose payload fails the
\* validation is answered INVALID_CONFIGURATION and changes nothing.
C9_InvalidAnyState ==
    [][(Dispatched("configure") /\ cmd'.payload \in InvalidPayloads)
          => (cmd'.resp = INVALID_CONFIGURATION /\ UNCHANGED hvars)]_vars

\* C9 amended: a configure whose payload fails the validation changes
\* nothing in any handler state; it is answered INVALID_CONFIGURATION when
\* the handler is not Running and ALREADY_STARTED when it is Running.
C9_InvalidConfigure ==
    [][(Dispatched("configure") /\ cmd'.payload \in InvalidPayloads)
          => /\ cmd'.resp =
                   IF started THEN ALREADY_STARTED ELSE INVALID_CONFIGURATION
             /\ UNCHANGED hvars]_vars

C9_Witness ==
    /\ cmd.name = "configure"
    /\ cmd.payload \in InvalidPayloads
    /\ Len(cmd.payload.devices) = 2
    /\ cmd.resp = INVALID_CONFIGURATION
    /\ configuration \in ValidPayloads

C13_StopClosesAllDevices ==
    (cmd.name = "stop" /\ cmd.resp = OK)
        => /\ devices = <<>>
           /\ \A d \in (start_base + 1)..Len(objs) :
                 ~objs[d].is_open /\ ~Live(objs[d])

\* A stop is answered OK after a start that created two devices.
C13_Witness ==
    /\ cmd.name = "stop" /\ cmd.resp = OK
    /\ Len(objs) >= start_base + 2

\* C14: in every state, also in the middle of a start or of a stop and after
\* a start that failed, no device has a live task unless the handler is
\* started.
C14_NotStartedNoLiveTask ==
    ~started => \A d \in 1..Len(objs) : ~Live(objs[d])

\* C15: a start that ended without being answered OK or NOT_CONFIGURED, and
\* was not cut short by the disconnection of its client, failed because a
\* device could not be created or opened, and is answered DEVICE_READ_ERROR.
C15_FailedStartIsReported ==
    (cmd.name = "start" /\ pc = "idle"
        /\ cmd.resp \notin {OK, NOT_CONFIGURED, CANCELLED})
        => cmd.resp = DEVICE_READ_ERROR

\* C16: the command "disconnect" closes the peer and leaves the server
\* listening, the command "exit" closes the peer and the listening socket and
\* ends the read loop; after either no client is connected.
C16_DisconnectAndExit ==
    /\ [][Dispatched("disconnect")
            => (~connected' /\ serving')]_vars
    /\ [][Dispatched("exit")
            => (~connected' /\ ~serving' /\ read_loop_task' = "done")]_vars

\* C17: a line that is not a valid command closes the peer and leaves the
\* server listening, and the read loop of a client that connects afterwards
\* runs.
C17_MalformedLineClosesPeer ==
    /\ [][Dispatched("malformed")
            => (~connected' /\ serving')]_vars
    /\ [][(cmd.name = "malformed" /\ ~connected /\ connected')
            => read_loop_task' = "running"]_vars

\* The step is a call of method m of the device.
Called(m) == ext'.n # ext.n /\ ext'.call = m

\* C19: open of a device that is already open does not call basic_open
\* again and creates no second task, and in every state the device has at
\* most one live task.
C19_OpenIdempotent ==
    /\ [][(Called("open") /\ ext.dev.is_open)
            => ext'.basic_opens = ext.basic_opens]_vars
    /\ [][(ext.call = "open" /\ ext.at = "basic_open" /\ Live(ext.dev))
            => Tasks(ext'.dev) = Tasks(ext.dev)]_vars
    /\ [](Tasks(ext.dev) <= 1)

\* C20: close replaces the task by a done future and calls basic_close once
\* when the device is open; a close of a device that is not open calls
\* basic_close no further time and returns; and when a close has returned
\* the device is not open and has no live task.
C20_CloseIdempotent ==
    /\ [][Called("close")
            => (ext'.dev.loop = "done" /\ ~ext'.dev.is_open)]_vars
    /\ [][(Called("close") /\ ext.dev.is_open)
            => ext'.basic_closes = ext.basic_closes + 1]_vars
    /\ [][(Called("close") /\ ~ext.dev.is_open)
            => (ext'.basic_closes = ext.basic_closes /\ ext'.result = OK)]_vars
    /\ []((ext.call = "close" /\ ext.result = OK)
            => (~ext.dev.is_open /\ ~Live(ext.dev)))

\* C18: at most one connection has a running read loop, and while the peer
\* that responses and telemetry are written to has a running read loop, the
\* acceptance of another connection does not replace that peer.
C18_OneClientAtATime ==
    /\ [](Cardinality(Reading) <= 1)
    /\ [][(ext.writer \in Reading) => ext'.writer = ext.writer]_vars

\* The rules of an entry as C24 states them, with the sensor types that
\* _validate_device_configuration supports.
C24_EntryRules(e) ==
    /\ e.name # Absent
    /\ e.device_type \in {FTDI, SERIAL}
    /\ e.sensor_type \in {TEMPERATURE, WIND}
    /\ e.device_type = FTDI => e.ftdi_id # Absent
    /\ e.device_type = SERIAL => e.serial_port # Absent
    /\ e.sensor_type = TEMPERATURE => e.channels # Absent

\* C24: configure (of a handler that is not started) answers OK exactly
\* when the configuration has the single key devices with a non-empty list
\* all of whose entries satisfy the entry rules, where channels is required
\* of Temperature entries only; every other configuration is answered
\* INVALID_CONFIGURATION.
C24_ValidationRules ==
    ext.response # None =>
        LET c == ext.payload
            accepted == /\ c.keys = {"devices"}
                        /\ c.devices # <<>>
                        /\ \A k \in 1..Len(c.devices) :
                              C24_EntryRules(c.devices[k])
        IN  ext.response = IF accepted THEN OK ELSE INVALID_CONFIGURATION

\* C25: a configuration that configure answers OK and stores has pairwise
\* distinct device names.
C25_UniqueNames ==
    ext.response = OK =>
        \A j, k \in 1..Len(ext.stored.devices) :
            j # k => ext.stored.devices[j].name # ext.stored.devices[k].name

\* C26: a configuration that passes the validation against CONFIG_JSCHEMA
\* satisfies the schema of an entry at every position of devices.
C26_SchemaEveryEntry ==
    ext.schema = OK =>
        \A k \in 1..Len(ext.payload.devices) :
            ~schema_item_fails(ext.payload.devices[k])

\* C27: TemperatureSensor.extract_telemetry raises or returns a list of
\* exactly num_channels values, whatever the number of fields of the line.
C27_TemperatureLength ==
    (ext.called /\ ext.sensor.type = TEMPERATURE /\ ~ext.raised)
        => Len(ext.output) = ext.sensor.num_channels

\* C28: for every decoder, extract_telemetry of the line that holds only
\* the terminator of the decoder does not raise and returns a vector of
\* the declared length all of whose entries are NaN.
C28_TerminatorOnlyLine ==
    (ext.called /\ ext.line = ext.sensor.terminator) =>
        /\ ~ext.raised
        /\ Len(ext.output) = DeclaredLength(ext.sensor)
        /\ \A k \in 1..Len(ext.output) : ext.output[k] = NaN

C28_Witness ==
    /\ ext.spec = "sensor"
    /\ ext.called
    /\ ext.line = ext.sensor.terminator
    /\ ext.sensor.type = TEMPERATURE
    /\ ext.sensor.num_channels = MaxChannels
    /\ ext.output = [k \in 1..MaxChannels |-> NaN]

C22_DecodeErrorAbsorbed == ext.task # RAISED

\* C23: handle_readline_exception called with a CancelledError does not
\* close the transport, does not sleep and does not raise; a task that is
\* cancelled during the sleep of the hook ends as cancelled without
\* another open of the device; and a cancelled task takes no further step.
C23_CancelIsNotAFailure ==
    /\ [][(ext.at = "handle_readline_exception"
           /\ ext.exception = CancelledError) =>
             /\ ext'.closes = ext.closes
             /\ ext'.is_open = ext.is_open
             /\ ext'.sleeps = ext.sleeps
             /\ ext'.at = "returned"]_vars
    /\ [][(ext.at \in {"returned", "raised"}
           /\ ext.exception = CancelledError) =>
             /\ ext'.task = CANCELLED
             /\ ext'.opens = ext.opens]_vars
    /\ [][ext.task # CANCELLED]_vars

C23_Witness ==
    /\ ext.spec = "hook"
    /\ ext.task = CANCELLED
    /\ ext.in_backoff
    /\ ext.sleeps = 1
    /\ ext.opens = 1
    /\ ~ext.is_open

C30_AtMostFiveAttempts ==
    /\ ext.sends <= MAX_NUM_START_STOP_ATTEMPS
    /\ ext.result \in {None, "returned", "StartMeasurementError",
                       "StopMeasurementError"}

\* The number of "=" of a field, and the text after its first "=".
C32_Equals(field) == Cardinality({i \in 1..Len(field) : field[i] = "="})
C32_Value(field) ==
    LET i == CHOOSE i \in 1..Len(field) : field[i] = "="
    IN  SubSeq(field, i + 1, Len(field))

\* C32: TemperatureSensor.extract_telemetry raises for a line with a field
\* that holds more than one "="; when it returns, a field without "=" has
\* given NaN, a field with one "=" a number, or NaN for 9999.9990, and the
\* k fields stand in their order at the end of the output, after
\* num_channels - k NaN when k < num_channels.
C32_FieldByField ==
    (ext.called /\ ext.sensor.type = TEMPERATURE) =>
        LET fields == split(strip(ext.line, {CR, LF}), ",")
            k == Len(fields)
            pad == IF k < ext.sensor.num_channels
                   THEN ext.sensor.num_channels - k ELSE 0
        IN  /\ (\E j \in 1..k : C32_Equals(fields[j]) > 1) => ext.raised
            /\ ~ext.raised =>
                 /\ Len(ext.output) = pad + k
                 /\ \A j \in 1..pad : ext.output[j] = NaN
                 /\ \A j \in 1..k :
                      ext.output[pad + j] =
                        IF C32_Equals(fields[j]) = 0 THEN NaN
                        ELSE IF C32_Value(fields[j]) = DISCONNECTED_VALUE
                        THEN NaN ELSE Number

C32_Witness ==
    /\ ext.spec = "sensor"
    /\ ext.called
    /\ ext.sensor = TemperatureSensor(MaxChannels)
    /\ ext.line = <<"=", "D", CR, LF>>
    /\ ext.output = [j \in 1..MaxChannels |-> NaN]

\* Whether a line of the anemometer is a frame, and the exclusive or of
\* the characters between its start and its end character.
C33_IsFrame(line) ==
    /\ Len(line) \in {14, 15}
    /\ line[1] = START_CHARACTER
    /\ line[Len(line) - 3] = END_CHARACTER
    /\ line[Len(line) - 4 - 5] \in WindSpeeds
    /\ SubSeq(line, Len(line) - 1, Len(line)) = <<CR, LF>>
C33_Checksum(line) == XorAll(SubSeq(line, 2, Len(line) - 4))

\* C33: for a frame, WindSensor.extract_telemetry does not raise; it
\* returns [NaN, NaN] when the checksum of the frame is not the exclusive
\* or of the characters between STX and ETX, returns a speed only when
\* it is, and returns [speed, NaN] for a right checksum and an empty
\* direction.
C33_WindChecksum ==
    (ext.called /\ ext.sensor.type = WIND /\ C33_IsFrame(ext.line)) =>
        LET right == C33_Checksum(ext.line) = int16[ext.line[Len(ext.line) - 2]]
        IN  /\ ~ext.raised
            /\ Len(ext.output) = 2
            /\ ~right => ext.output = <<NaN, NaN>>
            /\ ext.output[1] = Number => right
            /\ (right /\ Len(ext.line) = 14) => ext.output = <<Number, NaN>>

C33_Witness ==
    /\ ext.spec = "sensor"
    /\ ext.called
    /\ ext.line = WindFrame(<<>>, "001.00", GOOD_STATUS, "2F")
    /\ ext.output = <<Number, NaN>>

\* C34: a frame with a right checksum whose speed is 9999.9990 gives the
\* speed NaN, and one whose direction is 999 gives the direction NaN;
\* extract_telemetry returns two values and does not raise.
C34_WindSentinels ==
    /\ (/\ ext.called
        /\ ext.line = WindFrame(<<"010">>, DEFAULT_SPEED_VAL, GOOD_STATUS, "26"))
          => (~ext.raised /\ Len(ext.output) = 2 /\ ext.output[1] = NaN)
    /\ (/\ ext.called
        /\ ext.line = WindFrame(<<DEFAULT_DIRECTION_VAL>>, "001.00",
                                GOOD_STATUS, "16"))
          => (~ext.raised /\ Len(ext.output) = 2 /\ ext.output[2] = NaN)

C38_LineEndsWithTerminator ==
    ext.readlines > 0 =>
        /\ Len(ext.returned) >= 2
        /\ SubSeq(ext.returned, Len(ext.returned) - 1, Len(ext.returned))
             = ext.terminator

\* C36: when read_measured_values raises a SerialException or a ValueError
\* in SensirionSps30.readline, no exception leaves readline, also when the
\* stop or the start of the recovery fails, and readline returns the empty
\* line.
C36_NoExceptionLeavesReadline ==
    (ext.in_readline /\ ext.read.raises \in {"SerialException", "ValueError"})
        => /\ ext.result \in {None, "returned"}
           /\ ext.returned => ext.line = <<>>

\* C35: one call of read_measured_values sends READ_MEASURED_VALUES at
\* most MAX_NUM_READ_ATTEMPTS times; it goes on only while the reply is
\* EMPTY and returns the first reply that is not EMPTY.
C35_AtMostSixtyReads ==
    ext.sends <= MAX_NUM_READ_ATTEMPTS
    /\ (ext.op = "read" /\ ext.sends > 0 => ext.hex_reply = EMPTY)

\* C37: from the second call of read_measured_values on, the first
\* READ_MEASURED_VALUES of a call is sent READ_SLEEP_TIME or more after
\* the last one of the call before it.
C37_ReadSleepTimeBetweenReads ==
    (ext.calls >= 2 /\ ext.sends >= 1) => ext.gap >= READ_SLEEP_TIME

\* C39: in the CommandHandler of lsst.ts.ess.sensors a stop that is
\* answered OK leaves the list of instruments empty, for a configuration
\* of any number of devices.
C39_StopStopsEveryInstrument ==
    (ext.last.name = "stop" /\ ext.last.resp = OK) => ext.instruments = <<>>

\* C40: in the simulation mode a start on a stored (validated)
\* configuration does not fail: a mock device is made for every entry,
\* whatever its device_type, and the answer is OK with one device for each
\* entry.
C40_SimulationStartSucceeds ==
    (simulation_mode = 1 /\ cmd.name = "start" /\ pc = "idle"
       /\ configuration \in ValidPayloads)
        => /\ cmd.resp # RAISED
           /\ cmd.resp = OK => Len(devices) = Len(configuration.devices)
====
